---- MODULE Spec2Model ----
(***************************************************************************)
(* Model of beam_analysis.py (closed-form beam solvers, superposition,     *)
(* moment-field samplers) and of TSCULDesign.module2_construction_load_    *)
(* check in tsc_ul_design.py.                                              *)
(*                                                                         *)
(* Numbers: the Python code computes in floating point.  The model         *)
(* computes the same expressions in exact rational arithmetic; a rational  *)
(* is a pair <<n, d>> in lowest terms with d > 0, so that two rationals    *)
(* are equal exactly when the pairs are equal.  Division by zero is the    *)
(* Python ZeroDivisionError and is modelled as an error outcome.           *)
(***************************************************************************)
EXTENDS Integers, Sequences, FiniteSets

VARIABLES
    pc,        \* "idle": no call in progress; "returned": a call has ended
    call,      \* the call that ended last: its name and arguments
    ret,       \* its outcome: a returned value or a raised exception
    inputs,    \* TSCULDesign.inputs
    results    \* TSCULDesign.results

vars == <<pc, call, ret, inputs, results>>

(***************************************************************************)
(* Bounds of the model.                                                    *)
(***************************************************************************)
MaxL == 3
MaxF == 2
MaxNumPoints == 4
MaxGirders == 3

(***************************************************************************)
(* Exact rational arithmetic standing for Python's float operators.        *)
(***************************************************************************)
Abs(n) == IF n < 0 THEN -n ELSE n

RECURSIVE GCD(_, _)
GCD(m, n) == IF n = 0 THEN m ELSE GCD(n, m % n)

Norm(n, d) ==
    LET g == GCD(Abs(n), Abs(d))
        s == IF d < 0 THEN -1 ELSE 1
    IN  <<(s * n) \div g, (s * d) \div g>>

R(n) == <<n, 1>>
Frac(n, d) == Norm(n, d)
Zero == R(0)

RAdd(x, y) == Norm(x[1] * y[2] + y[1] * x[2], x[2] * y[2])
RNeg(x) == <<-x[1], x[2]>>
RSub(x, y) == RAdd(x, RNeg(y))
RMul(x, y) ==
    LET a == Norm(x[1], y[2])
        b == Norm(y[1], x[2])
    IN  Norm(a[1] * b[1], a[2] * b[2])
RDiv(x, y) == RMul(x, IF y[1] < 0 THEN <<-y[2], -y[1]>> ELSE <<y[2], y[1]>>)
RSq(x) == RMul(x, x)
RCube(x) == RMul(x, RMul(x, x))
RLt(x, y) == x[1] * y[2] < y[1] * x[2]
RLe(x, y) == x[1] * y[2] <= y[1] * x[2]

(***************************************************************************)
(* Outcomes of a call.                                                     *)
(***************************************************************************)
Raise(e) == [kind |-> "error", error |-> e]
IsError(r) == r.kind = "error"

(***************************************************************************)
(* beam_analysis.py: the four closed-form solvers.  Arguments are          *)
(* rationals.  A solver that divides by L raises ZeroDivisionError when    *)
(* L = 0; no solver checks its arguments in any other way.                 *)
(***************************************************************************)
\* Variants of fixed_fixed_point_load with one formula mistyped.
fixed_fixed_point_load_RB(F, a, L) ==
    IF L = Zero THEN Raise("ZeroDivisionError")
    ELSE
    LET b == RSub(L, a)
        M_A == RDiv(RMul(RMul(RNeg(F), a), RSq(b)), RSq(L))
        M_B == RDiv(RMul(RMul(RNeg(F), RSq(a)), b), RSq(L))
        M_F == RDiv(RMul(RMul(RMul(R(2), F), RSq(a)), RSq(b)), RCube(L))
        R_A == RDiv(RMul(RMul(F, RAdd(RMul(R(3), a), b)), RSq(b)), RCube(L))
        R_B == RDiv(RMul(RMul(F, RAdd(RMul(R(3), a), b)), RSq(a)), RCube(L))
    IN  [kind |-> "ok", M_A |-> M_A, M_B |-> M_B, M_F |-> M_F,
         R_A |-> R_A, R_B |-> R_B]

fixed_fixed_point_load_MF(F, a, L) ==
    IF L = Zero THEN Raise("ZeroDivisionError")
    ELSE
    LET b == RSub(L, a)
        M_A == RDiv(RMul(RMul(RNeg(F), a), RSq(b)), RSq(L))
        M_B == RDiv(RMul(RMul(RNeg(F), RSq(a)), b), RSq(L))
        M_F == RDiv(RMul(RMul(F, RSq(a)), RSq(b)), RCube(L))
        R_A == RDiv(RMul(RMul(F, RAdd(RMul(R(3), a), b)), RSq(b)), RCube(L))
        R_B == RDiv(RMul(RMul(F, RAdd(a, RMul(R(3), b))), RSq(a)), RCube(L))
    IN  [kind |-> "ok", M_A |-> M_A, M_B |-> M_B, M_F |-> M_F,
         R_A |-> R_A, R_B |-> R_B]

fixed_fixed_point_load(F, a, L) ==
    IF L = Zero THEN Raise("ZeroDivisionError")
    ELSE
    LET b == RSub(L, a)
        M_A == RDiv(RMul(RMul(RNeg(F), a), RSq(b)), RSq(L))
        M_B == RDiv(RMul(RMul(RNeg(F), RSq(a)), b), RSq(L))
        M_F == RDiv(RMul(RMul(RMul(R(2), F), RSq(a)), RSq(b)), RCube(L))
        R_A == RDiv(RMul(RMul(F, RAdd(RMul(R(3), a), b)), RSq(b)), RCube(L))
        R_B == RDiv(RMul(RMul(F, RAdd(a, RMul(R(3), b))), RSq(a)), RCube(L))
    IN  [kind |-> "ok", M_A |-> M_A, M_B |-> M_B, M_F |-> M_F,
         R_A |-> R_A, R_B |-> R_B]

fixed_fixed_uniform_load(q, L) ==
    LET M_A == RDiv(RMul(RNeg(q), RSq(L)), R(12))
        M_B == M_A
        M_center == RDiv(RMul(q, RSq(L)), R(24))
        R_A == RDiv(RMul(q, L), R(2))
        R_B == R_A
    IN  [kind |-> "ok", M_A |-> M_A, M_B |-> M_B, M_center |-> M_center,
         R_A |-> R_A, R_B |-> R_B]

\* Variant of pinned_pinned_point_load with the two reactions exchanged.
pinned_pinned_point_load_swapped(F, a, L) ==
    IF L = Zero THEN Raise("ZeroDivisionError")
    ELSE
    LET b == RSub(L, a)
        M_F == RDiv(RMul(RMul(F, a), b), L)
        R_A == RDiv(RMul(F, a), L)
        R_B == RDiv(RMul(F, b), L)
    IN  [kind |-> "ok", M_F |-> M_F, R_A |-> R_A, R_B |-> R_B]

pinned_pinned_point_load(F, a, L) ==
    IF L = Zero THEN Raise("ZeroDivisionError")
    ELSE
    LET b == RSub(L, a)
        M_F == RDiv(RMul(RMul(F, a), b), L)
        R_A == RDiv(RMul(F, b), L)
        R_B == RDiv(RMul(F, a), L)
    IN  [kind |-> "ok", M_F |-> M_F, R_A |-> R_A, R_B |-> R_B]

pinned_pinned_uniform_load(q, L) ==
    LET M_center == RDiv(RMul(q, RSq(L)), R(8))
        R_A == RDiv(RMul(q, L), R(2))
        R_B == R_A
    IN  [kind |-> "ok", M_center |-> M_center, R_A |-> R_A, R_B |-> R_B]

(***************************************************************************)
(* numpy helpers used by the samplers.                                     *)
(***************************************************************************)
\* np.linspace(start, stop, num): num evenly spaced values, both ends in.
linspace(start, stop, num) ==
    IF num = 1 THEN <<start>>
    ELSE [i \in 1..num |->
            RAdd(start, RDiv(RMul(R(i - 1), RSub(stop, start)), R(num - 1)))]

\* Variant of where_branch: the right branch keeps the slope R_A of the left.
where_branch_slope(res, F, a, x) ==
    IF RLe(x, a)
    THEN RAdd(res.M_A, RMul(res.R_A, x))
    ELSE RAdd(res.M_F, RMul(res.R_A, RSub(x, a)))

\* np.where(x <= a, left(x), right(x)) over the two branches of one load.
where_branch(res, F, a, x) ==
    IF RLe(x, a)
    THEN RAdd(res.M_A, RMul(res.R_A, x))
    ELSE RAdd(res.M_F, RMul(RSub(res.R_A, F), RSub(x, a)))

RECURSIVE SeqMax(_)
SeqMax(s) ==
    IF Len(s) = 1 THEN s[1]
    ELSE LET m == SeqMax(Tail(s))
         IN  IF RLt(m, s[1]) THEN s[1] ELSE m

\* Variant of max_positive without the filter M_total > 0.
max_positive_unfiltered(M_total) ==
    IF Len(M_total) > 0 THEN SeqMax(M_total) ELSE Zero

\* np.max(positive_M) if len(positive_M) > 0 else 0
max_positive(M_total) ==
    LET positive_M == SelectSeq(M_total, LAMBDA m : RLt(Zero, m))
    IN  IF Len(positive_M) > 0 THEN SeqMax(positive_M) ELSE Zero

(***************************************************************************)
(* beam_analysis.py: the samplers (the numeric series; plotting omitted).  *)
(***************************************************************************)
plot_fixed_fixed_point_bmd(F, a, L, num_points) ==
    LET res == fixed_fixed_point_load(F, a, L)
    IN  IF IsError(res) THEN res
        ELSE
        LET x_left  == linspace(Zero, a, (num_points \div 2) + 1)
            x_right == linspace(a, L, (num_points \div 2) + 1)
            x_full  == x_left \o Tail(x_right)
            M_full  ==
                [i \in 1..Len(x_left) |->
                    RAdd(res.M_A, RMul(res.R_A, x_left[i]))]
                \o
                [i \in 1..Len(Tail(x_right)) |->
                    RAdd(res.M_F, RMul(RSub(res.R_A, F),
                                       RSub(Tail(x_right)[i], a)))]
        IN  [kind |-> "ok", x_full |-> x_full, M_full |-> M_full]

plot_fixed_fixed_superposed_bmd(F1, a1, F2, a2, L, num_points) ==
    LET x_full   == linspace(Zero, L, num_points)
        results1 == fixed_fixed_point_load(F1, a1, L)
        results2 == fixed_fixed_point_load(F2, a2, L)
    IN  IF IsError(results1) THEN results1
        ELSE IF IsError(results2) THEN results2
        ELSE
        LET M1 == [i \in 1..Len(x_full) |->
                      where_branch(results1, F1, a1, x_full[i])]
            M2 == [i \in 1..Len(x_full) |->
                      where_branch(results2, F2, a2, x_full[i])]
            M_total == [i \in 1..Len(x_full) |-> RAdd(M1[i], M2[i])]
        IN  [kind |-> "ok", x_full |-> x_full, M_total |-> M_total,
             max_positive_M |-> max_positive(M_total)]

(***************************************************************************)
(* beam_analysis.py: two equal loads at L/3 and 2L/3 by superposition.     *)
(***************************************************************************)
\* Variant of fixed_fixed_two_point_load: M_B summed from the first load twice.
fixed_fixed_two_point_load_MB(F, L) ==
    LET a1 == RDiv(L, R(3))
        a2 == RDiv(RMul(R(2), L), R(3))
        results1 == fixed_fixed_point_load(F, a1, L)
        results2 == fixed_fixed_point_load(F, a2, L)
    IN  IF IsError(results1) THEN results1
        ELSE IF IsError(results2) THEN results2
        ELSE
        LET M_A == RAdd(results1.M_A, results2.M_A)
            M_B == RAdd(results1.M_B, results1.M_B)
            R_A == RAdd(results1.R_A, results2.R_A)
            R_B == RAdd(results1.R_B, results2.R_B)
            M_pos_max ==
                RAdd(RAdd(results1.M_F,
                          RMul(RSub(results1.R_A, F),
                               RSub(RDiv(L, R(2)), a1))),
                     RAdd(results2.M_F,
                          RMul(RSub(results2.R_A, F),
                               RSub(RDiv(L, R(2)), a2))))
        IN  [kind |-> "ok", M_A |-> M_A, M_B |-> M_B,
             M_pos_max |-> M_pos_max, R_A |-> R_A, R_B |-> R_B]

fixed_fixed_two_point_load(F, L) ==
    LET a1 == RDiv(L, R(3))
        a2 == RDiv(RMul(R(2), L), R(3))
        results1 == fixed_fixed_point_load(F, a1, L)
        results2 == fixed_fixed_point_load(F, a2, L)
    IN  IF IsError(results1) THEN results1
        ELSE IF IsError(results2) THEN results2
        ELSE
        LET M_A == RAdd(results1.M_A, results2.M_A)
            M_B == RAdd(results1.M_B, results2.M_B)
            R_A == RAdd(results1.R_A, results2.R_A)
            R_B == RAdd(results1.R_B, results2.R_B)
            M_pos_max ==
                RAdd(RAdd(results1.M_F,
                          RMul(RSub(results1.R_A, F),
                               RSub(RDiv(L, R(2)), a1))),
                     RAdd(results2.M_F,
                          RMul(RSub(results2.R_A, F),
                               RSub(RDiv(L, R(2)), a2))))
        IN  [kind |-> "ok", M_A |-> M_A, M_B |-> M_B,
             M_pos_max |-> M_pos_max, R_A |-> R_A, R_B |-> R_B]

(***************************************************************************)
(* tsc_ul_design.py: TSCULDesign.module2_construction_load_check.          *)
(* The outcome is the returned dict, or the exception raised.              *)
(***************************************************************************)
\* y-direction girder demand: uniform load, dispatch on y_support_condition
y_demand(cond, w_y, l_y) ==
    IF cond = "pinned"
    THEN LET y_result == pinned_pinned_uniform_load(w_y, l_y)
         IN  [kind |-> "ok", mu |-> y_result.M_center, vu |-> y_result.R_A]
    ELSE IF cond = "fixed"
    THEN LET y_result == fixed_fixed_uniform_load(w_y, l_y)
         IN  [kind |-> "ok", mu |-> y_result.M_center, vu |-> y_result.R_A]
    ELSE Raise("ValueError")

\* mu_x, vu_x of one point load (n == 1), or the exception of the solver
single_point_demand(x_result) ==
    IF IsError(x_result) THEN x_result
    ELSE [kind |-> "ok", mu |-> x_result.M_F, vu |-> x_result.R_A]

\* mu_x, vu_x of two point loads on a pinned girder (n == 2)
pinned_two_point_demand(x_result1, x_result2) ==
    IF IsError(x_result1) THEN x_result1
    ELSE IF IsError(x_result2) THEN x_result2
    ELSE [kind |-> "ok",
          mu |-> RAdd(x_result1.M_F, x_result2.M_F),
          vu |-> RAdd(x_result1.R_A, x_result2.R_A)]

\* mu_x, vu_x of two point loads on a fixed girder (n == 2)
fixed_two_point_demand(x_results) ==
    IF IsError(x_results) THEN x_results
    ELSE [kind |-> "ok", mu |-> x_results.M_pos_max, vu |-> x_results.R_A]

\* x-direction girder demand: point loads, dispatch on n and on
\* x_support_condition
x_demand(n, cond, p, l_x) ==
    IF n = 1
    THEN LET pos == RDiv(l_x, R(2))
         IN  IF cond = "pinned"
             THEN single_point_demand(pinned_pinned_point_load(p, pos, l_x))
             ELSE IF cond = "fixed"
             THEN single_point_demand(fixed_fixed_point_load(p, pos, l_x))
             ELSE Raise("ValueError")
    ELSE IF n = 2
    THEN LET pos1 == RDiv(l_x, R(3))
             pos2 == RDiv(RMul(R(2), l_x), R(3))
         IN  IF cond = "pinned"
             THEN pinned_two_point_demand(
                      pinned_pinned_point_load(p, pos1, l_x),
                      pinned_pinned_point_load(p, pos2, l_x))
             ELSE IF cond = "fixed"
             THEN fixed_two_point_demand(fixed_fixed_two_point_load(p, l_x))
             ELSE Raise("ValueError")
    ELSE [kind |-> "ok", mu |-> Zero, vu |-> Zero]

\* the capacities (placeholders), the positions and the result dict, built
\* once both demands are known; an exception of either demand ends the call
module2_result(inp, tributary_width_y, dl_y, ll_y, w_y, p, y, x) ==
    LET n    == inp.num_y_girders
        l_x  == inp.x_span
        capacity_mn_y == Zero
        capacity_vn_y == Zero
        capacity_mn_x == Zero
        capacity_vn_x == Zero
        positions ==
            IF n = 1 THEN <<RDiv(l_x, R(2))>>
            ELSE <<RDiv(l_x, R(3)), RDiv(RMul(R(2), l_x), R(3))>>
    IN  IF IsError(y) THEN y
        ELSE IF IsError(x) THEN x
        ELSE [kind |-> "ok",
              y_bending_ok  |-> RLe(y.mu, capacity_mn_y),
              y_shear_ok    |-> RLe(y.vu, capacity_vn_y),
              y_required_mu |-> y.mu,
              y_capacity_mn |-> capacity_mn_y,
              y_required_vu |-> y.vu,
              y_capacity_vn |-> capacity_vn_y,
              x_bending_ok  |-> RLe(x.mu, capacity_mn_x),
              x_shear_ok    |-> RLe(x.vu, capacity_vn_x),
              x_required_mu |-> x.mu,
              x_capacity_mn |-> capacity_mn_x,
              x_required_vu |-> x.vu,
              x_capacity_vn |-> capacity_vn_x,
              tributary_width_y |-> tributary_width_y,
              w_y_dl |-> dl_y,
              w_y_ll |-> ll_y,
              w_y_total |-> w_y,
              point_load_p |-> p,
              num_y_girders |-> n,
              x_point_positions |-> positions,
              y_support_condition |-> inp.y_support_condition,
              x_support_condition |-> inp.x_support_condition]

module2_construction_load_check(inp) ==
    IF inp.num_y_girders + 1 = 0 THEN Raise("ZeroDivisionError")
    ELSE
    LET tributary_width_y == RDiv(inp.x_span, R(inp.num_y_girders + 1))
        dl_y == RMul(RMul(inp.slab_thickness, inp.concrete_density),
                     tributary_width_y)
        ll_y == RMul(inp.construction_live_load, tributary_width_y)
        w_y  == RAdd(RMul(Frac(6, 5), dl_y), RMul(Frac(8, 5), ll_y))
        l_y  == inp.y_span
        n    == inp.num_y_girders
        p    == RMul(w_y, inp.y_span)
        l_x  == inp.x_span
    IN  module2_result(inp, tributary_width_y, dl_y, ll_y, w_y, p,
                       y_demand(inp.y_support_condition, w_y, l_y),
                       x_demand(n, inp.x_support_condition, p, l_x))

(***************************************************************************)
(* Arguments the callers may pass (valid and invalid ones).                *)
(***************************************************************************)
Loads     == {R(f) : f \in -1..MaxF}
Spans     == {R(l) : l \in -1..MaxL}
Positions == {R(a) : a \in -1..(MaxL + 1)}
NumPoints == 2..MaxNumPoints
Conditions == {"pinned", "fixed", "roller"}

\* The fields of DesignInputs that module 2 reads.  (As written, the dataclass
\* lists fields without defaults after fields with defaults, which Python
\* rejects with a TypeError when the class is defined; module 2 is modelled
\* as it runs on an inputs object carrying these fields.)
DesignInputs ==
    [x_span : {R(l) : l \in 0..MaxL},
     y_span : {R(2), R(4)},
     slab_thickness : {Frac(1, 4)},
     construction_live_load : {Zero, Frac(5, 2)},
     concrete_density : {Zero, R(20)},
     num_y_girders : -1..MaxGirders,
     x_support_condition : Conditions,
     y_support_condition : Conditions]

\* the defaults of the DesignInputs dataclass, scaled to small numbers
DefaultInputs ==
    [x_span |-> R(MaxL), y_span |-> R(2), slab_thickness |-> Frac(1, 4),
     construction_live_load |-> Frac(5, 2), concrete_density |-> R(20),
     num_y_girders |-> 2, x_support_condition |-> "fixed",
     y_support_condition |-> "pinned"]

NoCall == [op |-> "none"]
NoRet  == [kind |-> "none"]

(***************************************************************************)
(* Actions: one per function of beam_analysis.py.  A call is made when no  *)
(* call is in progress and runs to its end in one step.                    *)
(***************************************************************************)
Finish(c, r) ==
    /\ pc = "idle"
    /\ pc' = "returned"
    /\ call' = c
    /\ ret' = r

CallFixedFixedPointLoad ==
    \E F \in Loads, a \in Positions, L \in Spans :
        /\ Finish([op |-> "fixed_fixed_point_load", F |-> F, a |-> a, L |-> L],
                  fixed_fixed_point_load(F, a, L))
        /\ UNCHANGED <<inputs, results>>

CallFixedFixedUniformLoad ==
    \E q \in Loads, L \in Spans :
        /\ Finish([op |-> "fixed_fixed_uniform_load", q |-> q, L |-> L],
                  fixed_fixed_uniform_load(q, L))
        /\ UNCHANGED <<inputs, results>>

CallPinnedPinnedPointLoad ==
    \E F \in Loads, a \in Positions, L \in Spans :
        /\ Finish([op |-> "pinned_pinned_point_load", F |-> F, a |-> a,
                   L |-> L],
                  pinned_pinned_point_load(F, a, L))
        /\ UNCHANGED <<inputs, results>>

CallPinnedPinnedUniformLoad ==
    \E q \in Loads, L \in Spans :
        /\ Finish([op |-> "pinned_pinned_uniform_load", q |-> q, L |-> L],
                  pinned_pinned_uniform_load(q, L))
        /\ UNCHANGED <<inputs, results>>

CallPlotPointBmd ==
    \E F \in Loads, a \in Positions, L \in Spans, np \in NumPoints :
        /\ Finish([op |-> "plot_fixed_fixed_point_bmd", F |-> F, a |-> a,
                   L |-> L, num_points |-> np],
                  plot_fixed_fixed_point_bmd(F, a, L, np))
        /\ UNCHANGED <<inputs, results>>

CallPlotSuperposedBmd ==
    \E F1 \in Loads, a1 \in Positions, F2 \in Loads, a2 \in Positions,
       L \in Spans, np \in NumPoints :
        /\ Finish([op |-> "plot_fixed_fixed_superposed_bmd", F1 |-> F1,
                   a1 |-> a1, F2 |-> F2, a2 |-> a2, L |-> L,
                   num_points |-> np],
                  plot_fixed_fixed_superposed_bmd(F1, a1, F2, a2, L, np))
        /\ UNCHANGED <<inputs, results>>

CallTwoPointLoad ==
    \E F \in Loads, L \in Spans :
        /\ Finish([op |-> "fixed_fixed_two_point_load", F |-> F, L |-> L],
                  fixed_fixed_two_point_load(F, L))
        /\ UNCHANGED <<inputs, results>>

\* the caller consumes the outcome; the value objects are discarded
Return ==
    /\ pc = "returned"
    /\ pc' = "idle"
    /\ call' = NoCall
    /\ ret' = NoRet
    /\ UNCHANGED <<inputs, results>>

(***************************************************************************)
(* Action of TSCULDesign: module 2 on the object's inputs; the result is   *)
(* stored in self.results only when the method reaches its end.            *)
(***************************************************************************)
StoreModule2(r) ==
    /\ Finish([op |-> "module2_construction_load_check"], r)
    /\ results' = IF IsError(r) THEN results
                  ELSE [k \in DOMAIN results \cup {"module2"} |->
                           IF k = "module2" THEN r ELSE results[k]]
    /\ UNCHANGED inputs

CallModule2 == StoreModule2(module2_construction_load_check(inputs))

(***************************************************************************)
(* Specifications.  Spec: the functions of beam_analysis.py.  SpecDesign:  *)
(* a TSCULDesign object constructed from any inputs, running module 2.     *)
(***************************************************************************)
Init ==
    /\ pc = "idle"
    /\ call = NoCall
    /\ ret = NoRet
    /\ inputs = DefaultInputs
    /\ results = <<>>

Next ==
    \/ CallFixedFixedPointLoad
    \/ CallFixedFixedUniformLoad
    \/ CallPinnedPinnedPointLoad
    \/ CallPinnedPinnedUniformLoad
    \/ CallPlotPointBmd
    \/ CallPlotSuperposedBmd
    \/ CallTwoPointLoad
    \/ Return

Spec == Init /\ [][Next]_vars

InitDesign ==
    /\ pc = "idle"
    /\ call = NoCall
    /\ ret = NoRet
    /\ inputs \in DesignInputs
    /\ results = <<>>

NextDesign ==
    \/ CallModule2
    \/ Return

SpecDesign == InitDesign /\ [][NextDesign]_vars

TypeOK ==
    /\ pc \in {"idle", "returned"}
    /\ ret.kind \in {"none", "ok", "error"}
    /\ DOMAIN results \subseteq {"module2"}

(***************************************************************************)
(* Properties.  Equalities are equalities of exact rationals: they state   *)
(* what the formulas of the code compute over the reals, which the         *)
(* floating-point results match up to rounding.                            *)
(***************************************************************************)
Returned(op) == pc = "returned" /\ call.op = op
Positive(x) == RLt(Zero, x)
InSpan(a, L) == RLe(Zero, a) /\ RLe(a, L)

\* C1: for F > 0 and L > 0, fixed_fixed_two_point_load(F, L) returns
\* M_pos_max equal to the aggregate moment at midspan, each load's
\* contribution taken from the branch that applies at x = L/2, which is
\* F*L/9.
C1_MidspanMomentIsFLOver9 ==
    (Returned("fixed_fixed_two_point_load")
        /\ Positive(call.F) /\ Positive(call.L)) =>
    LET F  == call.F
        L  == call.L
        a1 == RDiv(L, R(3))
        a2 == RDiv(RMul(R(2), L), R(3))
        x  == RDiv(L, R(2))
        r1 == fixed_fixed_point_load(F, a1, L)
        r2 == fixed_fixed_point_load(F, a2, L)
        \* a1 < L/2: right branch; L/2 <= a2: left branch
        atMid == RAdd(RAdd(r1.M_F, RMul(RSub(r1.R_A, F), RSub(x, a1))),
                      RAdd(r2.M_A, RMul(r2.R_A, x)))
    IN  /\ ret.kind = "ok"
        /\ ret.M_pos_max = atMid
        /\ ret.M_pos_max = RDiv(RMul(F, L), R(9))

\* C2: with two point loads P at L/3 and 2L/3 on a pinned x-direction
\* girder, the reported x_required_mu is the aggregate moment field at one
\* position (its maximum, P*L/3, reached at the load position L/3), not the
\* sum of the two loads' local M_F values.
C2_AggregateMomentNotSummedPeaks ==
    (Returned("module2_construction_load_check") /\ ret.kind = "ok"
        /\ inputs.num_y_girders = 2
        /\ inputs.x_support_condition = "pinned") =>
    LET P  == ret.point_load_p
        L  == inputs.x_span
        a1 == RDiv(L, R(3))
        a2 == RDiv(RMul(R(2), L), R(3))
        r1 == pinned_pinned_point_load(P, a1, L)
        r2 == pinned_pinned_point_load(P, a2, L)
        \* aggregate field at x = a1: load 1 at its own position, load 2 on
        \* its left branch R_A * x
        atA1 == RAdd(r1.M_F, RMul(r2.R_A, a1))
    IN  /\ ret.x_required_mu = atA1
        /\ ret.x_required_mu = RDiv(RMul(P, L), R(3))

\* C3: vertical equilibrium: for L > 0, R_A + R_B equals the applied load:
\* F for both point-load solvers with 0 <= a <= L, q*L for both uniform-load
\* solvers.
C3_VerticalEquilibrium ==
    /\ (/\ pc = "returned"
        /\ call.op \in {"fixed_fixed_point_load", "pinned_pinned_point_load"}
        /\ Positive(call.L) /\ InSpan(call.a, call.L)) =>
            /\ ret.kind = "ok"
            /\ RAdd(ret.R_A, ret.R_B) = call.F
    /\ (/\ pc = "returned"
        /\ call.op \in {"fixed_fixed_uniform_load",
                        "pinned_pinned_uniform_load"}
        /\ Positive(call.L)) =>
            /\ ret.kind = "ok"
            /\ RAdd(ret.R_A, ret.R_B) = RMul(call.q, call.L)

C3_Witness ==
    /\ Returned("fixed_fixed_point_load")
    /\ call.F = R(2) /\ call.a = R(1) /\ call.L = R(3)
    /\ ret.kind = "ok"
    /\ ret.R_A # ret.R_B
    /\ RAdd(ret.R_A, ret.R_B) = R(2)

\* C4: continuity at the load point: for 0 <= a <= L, L > 0, the left
\* branch M_A + R_A*a (M_A = 0 for pinned) equals the solver's M_F, and the
\* sample of plot_fixed_fixed_point_bmd at x = a is M_F.
C4_ContinuityAtLoadPoint ==
    /\ (Returned("fixed_fixed_point_load")
            /\ Positive(call.L) /\ InSpan(call.a, call.L)) =>
        /\ ret.kind = "ok"
        /\ RAdd(ret.M_A, RMul(ret.R_A, call.a)) = ret.M_F
    /\ (Returned("pinned_pinned_point_load")
            /\ Positive(call.L) /\ InSpan(call.a, call.L)) =>
        /\ ret.kind = "ok"
        /\ RMul(ret.R_A, call.a) = ret.M_F
    /\ (Returned("plot_fixed_fixed_point_bmd")
            /\ Positive(call.L) /\ InSpan(call.a, call.L)) =>
        /\ ret.kind = "ok"
        /\ LET k == (call.num_points \div 2) + 1
               res == fixed_fixed_point_load(call.F, call.a, call.L)
           IN  \* left limit (last sample of the left half) and right limit
               \* (right branch at x - a = 0)
               /\ ret.x_full[k] = call.a
               /\ ret.M_full[k] = res.M_F

C4_Witness ==
    /\ Returned("fixed_fixed_point_load")
    /\ call.F = R(1) /\ call.a = R(2) /\ call.L = R(3)
    /\ ret.kind = "ok"
    /\ Positive(ret.M_F)
    /\ RLt(ret.M_A, Zero)

\* C5: superposition: for L > 0, the M_A, M_B, R_A, R_B of
\* fixed_fixed_two_point_load(F, L) are the sums of the same fields of the
\* single-load results at L/3 and 2L/3; M_total of
\* plot_fixed_fixed_superposed_bmd is M1(x) + M2(x) at every grid point and
\* does not depend on the order of the two loads.
C5_SuperpositionLinearity ==
    /\ (Returned("fixed_fixed_two_point_load") /\ Positive(call.L)) =>
        LET r1 == fixed_fixed_point_load(call.F, RDiv(call.L, R(3)), call.L)
            r2 == fixed_fixed_point_load(call.F,
                      RDiv(RMul(R(2), call.L), R(3)), call.L)
        IN  /\ ret.kind = "ok"
            /\ ret.M_A = RAdd(r1.M_A, r2.M_A)
            /\ ret.M_B = RAdd(r1.M_B, r2.M_B)
            /\ ret.R_A = RAdd(r1.R_A, r2.R_A)
            /\ ret.R_B = RAdd(r1.R_B, r2.R_B)
    /\ (Returned("plot_fixed_fixed_superposed_bmd") /\ Positive(call.L)) =>
        LET r1 == fixed_fixed_point_load(call.F1, call.a1, call.L)
            r2 == fixed_fixed_point_load(call.F2, call.a2, call.L)
            M(r, F, a, x) ==
                IF RLe(x, a) THEN RAdd(r.M_A, RMul(r.R_A, x))
                ELSE RAdd(r.M_F, RMul(RSub(r.R_A, F), RSub(x, a)))
            swapped == plot_fixed_fixed_superposed_bmd(
                           call.F2, call.a2, call.F1, call.a1,
                           call.L, call.num_points)
        IN  /\ ret.kind = "ok"
            /\ Len(ret.M_total) = Len(ret.x_full)
            /\ \A i \in 1..Len(ret.x_full) :
                  ret.M_total[i] =
                      RAdd(M(r1, call.F1, call.a1, ret.x_full[i]),
                           M(r2, call.F2, call.a2, ret.x_full[i]))
            /\ ret.M_total = swapped.M_total
            /\ ret.max_positive_M = swapped.max_positive_M

C5_Witness ==
    /\ Returned("plot_fixed_fixed_superposed_bmd")
    /\ call.F1 = R(1) /\ call.a1 = R(1)
    /\ call.F2 = R(2) /\ call.a2 = R(2)
    /\ call.L = R(3) /\ call.num_points = 4
    /\ ret.kind = "ok"
    /\ ret.M_total[2] # ret.M_total[3]

\* C6: fail-fast validation: a solver or sampler called with L <= 0, or with
\* a point-load position outside [0, L], ends in an error and returns no
\* result computed from the invalid input.  (Stated for any error, whatever
\* its name.)
C6_InvalidInputFailsFast ==
    LET BadSpan == ~Positive(call.L)
        Bad(a)  == ~InSpan(a, call.L)
    IN  /\ (/\ pc = "returned"
            /\ call.op \in {"fixed_fixed_point_load",
                            "pinned_pinned_point_load",
                            "plot_fixed_fixed_point_bmd"}
            /\ (BadSpan \/ Bad(call.a))) => ret.kind = "error"
        /\ (/\ pc = "returned"
            /\ call.op \in {"fixed_fixed_uniform_load",
                            "pinned_pinned_uniform_load",
                            "fixed_fixed_two_point_load"}
            /\ BadSpan) => ret.kind = "error"
        /\ (/\ pc = "returned"
            /\ call.op = "plot_fixed_fixed_superposed_bmd"
            /\ (BadSpan \/ Bad(call.a1) \/ Bad(call.a2))) =>
                ret.kind = "error"

\* C7: for every num_y_girders, an x_support_condition or
\* y_support_condition other than 'pinned' / 'fixed' makes
\* module2_construction_load_check end in an error, and no 'module2' entry
\* is written to self.results.
C7_UnsupportedConditionSurfaced ==
    (/\ Returned("module2_construction_load_check")
     /\ \/ inputs.x_support_condition \notin {"pinned", "fixed"}
        \/ inputs.y_support_condition \notin {"pinned", "fixed"}) =>
        /\ ret.kind = "error"
        /\ "module2" \notin DOMAIN results

\* C8: max_positive_M of plot_fixed_fixed_superposed_bmd is the largest of
\* the strictly positive samples of M_total (so it is >= every sample and is
\* the sample at some grid position), and is 0 when no sample is strictly
\* positive; the call does not fail on a fully hogging or all-zero field.
C8_ExtremumOfSampledField ==
    (Returned("plot_fixed_fixed_superposed_bmd") /\ call.L # Zero) =>
        /\ ret.kind = "ok"
        /\ LET idx == 1..Len(ret.M_total)
               pos == {i \in idx : Positive(ret.M_total[i])}
           IN  /\ \A i \in idx : RLe(ret.M_total[i], ret.max_positive_M)
               /\ pos # {} => \E i \in pos :
                                 ret.max_positive_M = ret.M_total[i]
               /\ pos = {} => ret.max_positive_M = Zero

\* a fully hogging field of two downward loads inside the span
C8_Witness ==
    /\ Returned("plot_fixed_fixed_superposed_bmd")
    /\ Positive(call.L) /\ Positive(call.F1) /\ Positive(call.F2)
    /\ InSpan(call.a1, call.L) /\ InSpan(call.a2, call.L)
    /\ ret.kind = "ok"
    /\ \A i \in 1..Len(ret.M_total) : RLt(ret.M_total[i], Zero)
    /\ ret.max_positive_M = Zero

\* C9: degenerate load position: for L > 0, a load at a = 0 or a = L gives
\* M_A = M_B = M_F = 0 (fixed) or M_F = 0 (pinned) and the whole load is the
\* reaction of the support under it.
C9_DegenerateLoadPosition ==
    LET AtA == ret.R_A = call.F /\ ret.R_B = Zero
        AtB == ret.R_A = Zero /\ ret.R_B = call.F
    IN  /\ (Returned("fixed_fixed_point_load") /\ Positive(call.L)
                /\ call.a \in {Zero, call.L}) =>
            /\ ret.kind = "ok"
            /\ ret.M_A = Zero /\ ret.M_B = Zero /\ ret.M_F = Zero
            /\ call.a = Zero => AtA
            /\ call.a = call.L => AtB
        /\ (Returned("pinned_pinned_point_load") /\ Positive(call.L)
                /\ call.a \in {Zero, call.L}) =>
            /\ ret.kind = "ok"
            /\ ret.M_F = Zero
            /\ call.a = Zero => AtA
            /\ call.a = call.L => AtB

C9_Witness ==
    /\ Returned("pinned_pinned_point_load")
    /\ call.F = R(2) /\ call.a = R(3) /\ call.L = R(3)
    /\ ret.kind = "ok"
    /\ ret.R_B = R(2)

\* C10: breakpoint sampling: every load position inside [0, L] occurs
\* exactly once among the sample positions of plot_fixed_fixed_point_bmd and
\* of plot_fixed_fixed_superposed_bmd, and the position and moment arrays
\* have equal length.
C10_BreakpointSampledOnce ==
    LET Count(xs, a) == Cardinality({i \in 1..Len(xs) : xs[i] = a})
    IN  /\ (Returned("plot_fixed_fixed_point_bmd") /\ Positive(call.L)
                /\ InSpan(call.a, call.L)) =>
            /\ ret.kind = "ok"
            /\ Count(ret.x_full, call.a) = 1
            /\ Len(ret.x_full) = Len(ret.M_full)
        /\ (Returned("plot_fixed_fixed_superposed_bmd") /\ Positive(call.L)
                /\ InSpan(call.a1, call.L) /\ InSpan(call.a2, call.L)) =>
            /\ ret.kind = "ok"
            /\ Count(ret.x_full, call.a1) = 1
            /\ Count(ret.x_full, call.a2) = 1
            /\ Len(ret.x_full) = Len(ret.M_total)

\* C11: end closure: for 0 <= a <= L, L > 0, the right branch at the far
\* support, M_F + (R_A - F)*(L - a), is M_B for fixed_fixed_point_load and 0
\* for pinned_pinned_point_load, and the left branch at x = 0 is M_A (0 for
\* pinned); the first and last samples of plot_fixed_fixed_point_bmd are M_A
\* and M_B, and those of the superposed field are the summed M_A and M_B.
C11_EndClosure ==
    /\ (Returned("fixed_fixed_point_load")
            /\ Positive(call.L) /\ InSpan(call.a, call.L)) =>
        /\ ret.kind = "ok"
        /\ RAdd(ret.M_F, RMul(RSub(ret.R_A, call.F),
                              RSub(call.L, call.a))) = ret.M_B
        /\ RAdd(ret.M_A, RMul(ret.R_A, Zero)) = ret.M_A
    /\ (Returned("pinned_pinned_point_load")
            /\ Positive(call.L) /\ InSpan(call.a, call.L)) =>
        /\ ret.kind = "ok"
        /\ RAdd(ret.M_F, RMul(RSub(ret.R_A, call.F),
                              RSub(call.L, call.a))) = Zero
        /\ RMul(ret.R_A, Zero) = Zero
    /\ (Returned("plot_fixed_fixed_point_bmd")
            /\ Positive(call.L) /\ InSpan(call.a, call.L)) =>
        LET res == fixed_fixed_point_load(call.F, call.a, call.L)
        IN  /\ ret.kind = "ok"
            /\ ret.M_full[1] = res.M_A
            /\ ret.M_full[Len(ret.M_full)] = res.M_B
    /\ (Returned("plot_fixed_fixed_superposed_bmd") /\ Positive(call.L)
            /\ InSpan(call.a1, call.L) /\ InSpan(call.a2, call.L)) =>
        LET r1 == fixed_fixed_point_load(call.F1, call.a1, call.L)
            r2 == fixed_fixed_point_load(call.F2, call.a2, call.L)
        IN  /\ ret.kind = "ok"
            /\ ret.x_full[1] = Zero
            /\ ret.x_full[Len(ret.x_full)] = call.L
            /\ ret.M_total[1] = RAdd(r1.M_A, r2.M_A)
            /\ ret.M_total[Len(ret.M_total)] = RAdd(r1.M_B, r2.M_B)

\* two unequal loads strictly inside the span: both end samples are hogging
\* and differ
C11_Witness ==
    /\ Returned("plot_fixed_fixed_superposed_bmd")
    /\ call.F1 = R(2) /\ call.a1 = R(1)
    /\ call.F2 = R(1) /\ call.a2 = R(2)
    /\ call.L = R(3)
    /\ ret.kind = "ok"
    /\ RLt(ret.M_total[1], Zero)
    /\ RLt(ret.M_total[Len(ret.M_total)], Zero)
    /\ ret.M_total[1] # ret.M_total[Len(ret.M_total)]

\* C12: for every num_y_girders n >= 1, module2_construction_load_check
\* places the x-direction point loads at i*L_x/(n+1), i = 1..n: the reported
\* x_point_positions is that list of length n, and x_required_mu and
\* x_required_vu are the demand of the loads P there, non-zero when P > 0
\* (stated for a span L_x > 0).
C12_PointPositionsForEveryN ==
    (/\ Returned("module2_construction_load_check")
     /\ ret.kind = "ok"
     /\ Positive(inputs.x_span)
     /\ inputs.num_y_girders >= 1) =>
    LET n   == inputs.num_y_girders
        l_x == inputs.x_span
    IN  /\ ret.num_y_girders = n
        /\ Len(ret.x_point_positions) = n
        /\ ret.x_point_positions =
              [i \in 1..n |-> RDiv(RMul(R(i), l_x), R(n + 1))]
        /\ Positive(ret.point_load_p) =>
              /\ ret.x_required_mu # Zero
              /\ ret.x_required_vu # Zero

====
